---- MODULE Spec2Model ----
(***************************************************************************)
(* A model of nasa_horizons_verification.py: the planetary-position table, *)
(* the clustering (span) analysis, the Mars motion classification and the  *)
(* Sun-Moon eclipse check.                                                 *)
(*                                                                         *)
(* Angles the ephemeris service returns are integers in thousandths of a   *)
(* degree (Deg(1) = 1000).  The strings the script prints with two (one)   *)
(* decimals hold hundredths (tenths) of a degree.  No sample value lies on *)
(* a decimal rounding tie, so the rounding of the printed value does not   *)
(* depend on the binary representation of the float.                       *)
(***************************************************************************)
EXTENDS Integers, Sequences, FiniteSets, TLC

VARIABLES
    pc,          \* position of the function being run
    answers,     \* what the service answered to each query so far, in order
    results,     \* test_planetary_positions: the rows built so far
    longitudes,  \* test_planetary_clustering: the usable (Body, lon) pairs
    span,        \* test_planetary_clustering: the span it computed
    within,      \* test_planetary_clustering: the printed YES / NO
    outcome,     \* how the last function ended: value, None or an exception
    queried,     \* check_mars_retrograde: the instants queried (day offsets)
    days,        \* check_mars_retrograde: its days argument
    prev_lon,    \* check_mars_retrograde: <<lon>>, or << >> for None
    positions,   \* check_mars_retrograde: the list it returns
    diffs,       \* check_mars_retrograde: the wraparound-corrected diffs
    eclipse      \* test_eclipse_conditions: the values it printed

vars == <<pc, answers, results, longitudes, span, within, outcome,
          queried, days, prev_lon, positions, diffs, eclipse>>

posVars  == <<answers, results>>
clVars   == <<longitudes, span, within>>
marsVars == <<queried, days, prev_lon, positions, diffs>>

-----------------------------------------------------------------------------
(* Bounds of the model *)

\* number of evenly spaced longitudes offered to the position table
PosGrid == 1
\* number of evenly spaced longitudes offered to the clustering analysis
ClusterGrid == 12
\* longest result list handed directly to test_planetary_clustering
MaxRows == 3

-----------------------------------------------------------------------------
(* Units and arithmetic *)

Deg(d) == d * 1000

Abs(x) == IF x < 0 THEN -x ELSE x

Max(S) == CHOOSE x \in S : \A y \in S : y <= x

Min(S) == CHOOSE x \in S : \A y \in S : x <= y

\* evenly spaced longitudes in [0, 360), n of them
Grid(n) == {(k * Deg(360)) \div n : k \in 0..(n - 1)}

\* round x >= 0 to a multiple of u, ties to even (printf of an exact value)
RoundHalfEven(x, u) ==
    LET q == x \div u
        r == x % u
    IN  IF 2 * r < u THEN q
        ELSE IF 2 * r > u THEN q + 1
        ELSE IF q % 2 = 0 THEN q ELSE q + 1

RoundSigned(x, u) ==
    IF x < 0 THEN -RoundHalfEven(-x, u) ELSE RoundHalfEven(x, u)

-----------------------------------------------------------------------------
(* Strings the script builds *)

\* f"{x:.2f}": the value in hundredths of a degree
Fmt2(x) == [txt |-> "num", val |-> RoundSigned(x, 10)]

NA == [txt |-> "N/A", val |-> 0]

Error == [txt |-> "Error", val |-> 0]

signs == <<"Aries", "Taurus", "Gemini", "Cancer", "Leo", "Virgo", "Libra",
           "Scorpio", "Sagittarius", "Capricorn", "Aquarius", "Pisces">>

\* f"{signs[sign_idx]} {degree_in_sign:.1f}": the degree in tenths
ecliptic_longitude_to_zodiac(lon) ==
    LET l == lon % Deg(360)
        sign_idx == l \div Deg(30)
        degree_in_sign == l % Deg(30)
    IN  [txt |-> "zodiac", sign |-> signs[sign_idx + 1],
         deg |-> RoundHalfEven(degree_in_sign, 100)]

ZodiacNA == [txt |-> "N/A", sign |-> "", deg |-> 0]

ZodiacError == [txt |-> "Error", sign |-> "", deg |-> 0]

-----------------------------------------------------------------------------
(* The ephemeris service *)

BODIES == <<"Sun", "Moon", "Mercury", "Venus", "Mars", "Jupiter", "Saturn">>

\* An answer of the service: it raises, or returns a table of len rows with
\* the columns cols; a cell that float() cannot convert is marked in bad.
Table(n, cols, bad, ra, dec, lon, lat) ==
    [kind |-> "table", len |-> n, cols |-> cols, bad |-> bad,
     RA |-> ra, DEC |-> dec, EclLon |-> lon, EclLat |-> lat]

Raises == [kind |-> "raise", len |-> 0, cols |-> {}, bad |-> {},
           RA |-> 0, DEC |-> 0, EclLon |-> 0, EclLat |-> 0]

None == [kind |-> "none", len |-> 0, cols |-> {}, bad |-> {},
         RA |-> 0, DEC |-> 0, EclLon |-> 0, EclLat |-> 0]

EmptyTable == Table(0, {"RA", "DEC", "EclLon", "EclLat"}, {}, 0, 0, 0, 0)

\* get_horizons_data: any exception of the query becomes None
get_horizons_data(answer) ==
    IF answer.kind = "raise" THEN None ELSE answer

Usable(eph) == eph.kind = "table" /\ eph.len > 0

-----------------------------------------------------------------------------
(* test_planetary_positions *)

ErrorRow(body_name) ==
    [Body |-> body_name, RA |-> Error, Dec |-> Error, EclLon |-> Error,
     Zodiac |-> ZodiacError]

\* a cell read with float(eph[col][0]) if col in eph.colnames else None;
\* Python's truth test then treats None and 0.0 alike
Truthy(eph, col, v) == col \in eph.cols /\ v # 0

\* the row one loop iteration appends for body_name
PositionsRow(body_name, eph) ==
    IF ~Usable(eph) THEN ErrorRow(body_name)
    ELSE IF (eph.bad \cap eph.cols) # {} THEN ErrorRow(body_name)
    ELSE [Body |-> body_name,
          RA |-> IF Truthy(eph, "RA", eph.RA) THEN Fmt2(eph.RA) ELSE NA,
          Dec |-> IF Truthy(eph, "DEC", eph.DEC) THEN Fmt2(eph.DEC) ELSE NA,
          EclLon |-> IF Truthy(eph, "EclLon", eph.EclLon)
                     THEN Fmt2(eph.EclLon) ELSE NA,
          Zodiac |-> IF Truthy(eph, "EclLon", eph.EclLon)
                     THEN ecliptic_longitude_to_zodiac(eph.EclLon)
                     ELSE ZodiacNA]

PosLons == Grid(PosGrid) \cup {Deg(123) + 456}

PosAnswers ==
    {Raises, EmptyTable,
     Table(1, {"RA", "DEC"}, {}, Deg(45) + 123, -Deg(5), 0, 0),
     Table(1, {"RA", "DEC", "EclLon"}, {"EclLon"}, 0, Deg(1), 0, 0)}
    \cup {Table(1, {"RA", "DEC", "EclLon"}, {}, Deg(10), -Deg(5) - 1, l, 0) :
            l \in PosLons}

\* a loop whose failing query appends no row
positions_dropping_failures ==
    /\ pc = "positions"
    /\ Len(answers) < Len(BODIES)
    /\ \E answer \in PosAnswers :
          /\ answers' = Append(answers, answer)
          /\ results' =
                IF Usable(get_horizons_data(answer))
                THEN Append(results,
                        PositionsRow(BODIES[Len(answers) + 1],
                                     get_horizons_data(answer)))
                ELSE results
    /\ UNCHANGED <<pc, clVars, outcome, marsVars, eclipse>>

\* one iteration of the loop over BODIES
test_planetary_positions ==
    /\ pc = "positions"
    /\ Len(results) < Len(BODIES)
    /\ \E answer \in PosAnswers :
          /\ answers' = Append(answers, answer)
          /\ results' = Append(results,
                PositionsRow(BODIES[Len(results) + 1],
                             get_horizons_data(answer)))
    /\ UNCHANGED <<pc, clVars, outcome, marsVars, eclipse>>

\* main: the approximate formulas when every row failed, else clustering
main_branch ==
    /\ pc = "positions"
    /\ Len(results) = Len(BODIES)
    /\ pc' = IF \A k \in 1..Len(results) : results[k].EclLon \in {Error, NA}
             THEN "approximate" ELSE "cluster"
    /\ UNCHANGED <<posVars, clVars, outcome, marsVars, eclipse>>

-----------------------------------------------------------------------------
(* test_planetary_clustering *)

\* the (Body, lon) pairs parsed back from the rows, in hundredths of a degree
UsableLongitudes(rs) ==
    LET keep(r) == r.EclLon \notin {NA, Error}
        F[k \in 0..Len(rs)] ==
            IF k = 0 THEN << >>
            ELSE IF keep(rs[k])
                 THEN Append(F[k - 1], <<rs[k].Body, rs[k].EclLon.val>>)
                 ELSE F[k - 1]
    IN  F[Len(rs)]

\* the span without the shifted second attempt
NaiveSpan(lons) == Max(lons) - Min(lons)

\* the span of at least two longitudes (hundredths of a degree)
ClusterSpan(lons) ==
    LET min_lon == Min(lons)
        max_lon == Max(lons)
        s == max_lon - min_lon
        shifted == {(l + 18000) % 36000 : l \in lons}
    IN  IF s > 18000 THEN Max(shifted) - Min(shifted) ELSE s

test_planetary_clustering ==
    /\ pc = "cluster"
    /\ LET ls == UsableLongitudes(results)
           lons == {ls[k][2] : k \in 1..Len(ls)}
       IN  /\ longitudes' = ls
           /\ IF Len(ls) >= 2
              THEN /\ span' = ClusterSpan(lons)
                   /\ within' = IF ClusterSpan(lons) <= 18000
                                THEN "YES" ELSE "NO"
                   /\ outcome' = "value"
              ELSE /\ UNCHANGED <<span, within>>
                   \* span is unbound: return span raises UnboundLocalError
                   /\ outcome' = IF Len(ls) = 0 THEN "None" ELSE "raised"
    /\ pc' = "done"
    /\ UNCHANGED <<posVars, marsVars, eclipse>>

\* main: the approximate formulas replace the analysis when every row failed
calculate_approximate_positions_ancient ==
    /\ pc = "approximate"
    /\ pc' = "done"
    /\ outcome' = "approximate"
    /\ UNCHANGED <<posVars, clVars, marsVars, eclipse>>

-----------------------------------------------------------------------------
(* check_mars_retrograde *)

\* longest period (days argument) tried
MaxDays == 12

\* the day offset from start_date of the instant iteration i queries:
\* epochs = {'start': start_date, 'stop': start_date}, whatever i is
QueryInstant(i) == 0

\* lon - prev_lon, corrected for the wraparound at 360
WrapDiff(prev, lon) ==
    LET diff == lon - prev
    IN  IF diff > Deg(180) THEN diff - Deg(360)
        ELSE IF diff < -Deg(180) THEN diff + Deg(360)
        ELSE diff

Direction(diff) ==
    IF diff > 0 THEN "Direct"
    ELSE IF diff < 0 THEN "RETROGRADE" ELSE "Stationary"

MarsLons ==
    {Deg(1), Deg(20), Deg(99), Deg(100), Deg(101), Deg(102), Deg(200),
     Deg(359)}

MarsAnswers ==
    {Raises, EmptyTable, Table(1, {"RA", "DEC"}, {}, 0, 0, 0, 0)}
    \cup {Table(1, {"EclLon"}, {}, 0, 0, l, 0) : l \in MarsLons}

\* one iteration of for i in range(0, days, 3); every exception is swallowed
check_mars_retrograde ==
    /\ pc = "mars"
    /\ 3 * Len(queried) < days
    /\ queried' = Append(queried, QueryInstant(3 * Len(queried)))
    /\ \E eph \in MarsAnswers :
          /\ answers' = Append(answers, eph)
          /\ IF eph.kind = "table" /\ eph.len > 0 /\ "EclLon" \in eph.cols
             THEN LET lon == eph.EclLon
                      direction == IF prev_lon # << >>
                                   THEN Direction(WrapDiff(prev_lon[1], lon))
                                   ELSE "N/A"
                  IN  /\ positions' = Append(positions,
                            [date |-> 0, longitude |-> lon,
                             zodiac |-> ecliptic_longitude_to_zodiac(lon),
                             direction |-> direction])
                      /\ diffs' = IF prev_lon # << >>
                                  THEN Append(diffs,
                                         [prev |-> prev_lon[1], cur |-> lon,
                                          diff |-> WrapDiff(prev_lon[1], lon)])
                                  ELSE diffs
                      /\ prev_lon' = <<lon>>
             ELSE UNCHANGED <<positions, diffs, prev_lon>>
    /\ UNCHANGED <<pc, results, clVars, outcome, days, eclipse>>

\* the loop is over: return positions
mars_return ==
    /\ pc = "mars"
    /\ 3 * Len(queried) >= days
    /\ pc' = "done"
    /\ outcome' = "value"
    /\ UNCHANGED <<posVars, clVars, marsVars, eclipse>>

-----------------------------------------------------------------------------
(* test_eclipse_conditions *)

\* number of evenly spaced longitudes offered to the eclipse check
EclipseGrid == 8

\* the separation without the fold at 180
UnfoldedSeparation(sun_lon, moon_lon) == Abs(moon_lon - sun_lon)

\* the Sun-Moon angular separation in longitude
SunMoonSeparation(sun_lon, moon_lon) ==
    LET lon_diff == Abs(moon_lon - sun_lon)
    IN  IF lon_diff > Deg(180) THEN Deg(360) - lon_diff ELSE lon_diff

\* sun_lat / moon_lat: the cell, or 0 when the table has no EclLat column
LatOrZero(eph) == IF "EclLat" \in eph.cols THEN eph.EclLat ELSE 0

YesNo(b) == IF b THEN "YES" ELSE "NO"

NotPrinted ==
    [state |-> "idle", lon_diff |-> 0, moon_lat |-> 0, is_new_moon |-> "",
     near_ecliptic |-> "", possible |-> ""]

\* what the function prints for the two answers of get_horizons_data
EclipseReport(sun_eph, moon_eph) ==
    IF sun_eph.kind = "none" \/ moon_eph.kind = "none"
    THEN [NotPrinted EXCEPT !.state = "skipped"]
    ELSE IF \E e \in {sun_eph, moon_eph} :
               e.len = 0 \/ "EclLon" \notin e.cols
    \* IndexError / KeyError, caught by the function's except clause
    THEN [NotPrinted EXCEPT !.state = "error"]
    ELSE LET lon_diff == SunMoonSeparation(sun_eph.EclLon, moon_eph.EclLon)
             moon_lat == LatOrZero(moon_eph)
             is_new_moon == lon_diff < Deg(15)
             near_ecliptic == Abs(moon_lat) < Deg(1) + 500
         IN  [state |-> "printed", lon_diff |-> lon_diff,
              moon_lat |-> moon_lat,
              is_new_moon |-> YesNo(is_new_moon),
              near_ecliptic |-> YesNo(near_ecliptic),
              possible |-> IF is_new_moon /\ near_ecliptic
                           THEN "YES" ELSE "UNLIKELY"]

EclipseLons ==
    Grid(EclipseGrid)
    \cup {Deg(10), Deg(358), Deg(15), Deg(15) - 1, Deg(180) + 1, Deg(360) - 1}

EclipseLats == {0, Deg(1) + 499, Deg(1) + 500, -Deg(1) - 499, -Deg(3)}

EclipseAnswers ==
    {Raises, EmptyTable, Table(1, {"RA", "DEC"}, {}, 0, 0, 0, 0)}
    \cup {Table(1, {"EclLon"}, {}, 0, 0, l, 0) : l \in EclipseLons}
    \cup {Table(1, {"EclLon", "EclLat"}, {}, 0, 0, l, b) :
            l \in EclipseLons, b \in EclipseLats}

test_eclipse_conditions ==
    /\ pc = "eclipse"
    /\ \E sun \in EclipseAnswers, moon \in EclipseAnswers :
          /\ answers' = <<sun, moon>>
          /\ eclipse' = EclipseReport(get_horizons_data(sun),
                                      get_horizons_data(moon))
    /\ pc' = "done"
    /\ outcome' = "None"
    /\ UNCHANGED <<results, clVars, marsVars>>

-----------------------------------------------------------------------------
(* Specifications: one per entry point *)

IdleCluster == longitudes = << >> /\ span = 0 /\ within = ""

IdleMars ==
    /\ queried = << >>
    /\ days = 0
    /\ prev_lon = << >>
    /\ positions = << >>
    /\ diffs = << >>

\* main up to the clustering analysis of the rows it collected
InitPositions ==
    /\ pc = "positions"
    /\ answers = << >>
    /\ results = << >>
    /\ outcome = ""
    /\ IdleCluster
    /\ IdleMars
    /\ eclipse = NotPrinted

NextPositions ==
    \/ test_planetary_positions
    \/ main_branch
    \/ calculate_approximate_positions_ancient
    \/ test_planetary_clustering

SpecPositions == InitPositions /\ [][NextPositions]_vars

\* test_planetary_clustering on any short list of rows the table can hold
ClusterLons ==
    Grid(ClusterGrid)
    \cup {4, Deg(180) - 10, Deg(180) + 10, Deg(360) - 10, Deg(360) - 4}

ClusterAnswers ==
    {Raises, Table(1, {"RA", "DEC"}, {}, 0, 0, 0, 0)}
    \cup {Table(1, {"EclLon"}, {}, 0, 0, l, 0) : l \in ClusterLons}

InitCluster ==
    /\ pc = "cluster"
    /\ \E n \in 0..MaxRows :
          \E f \in [1..n -> ClusterAnswers] :
             /\ answers = [k \in 1..n |-> f[k]]
             /\ results = [k \in 1..n |->
                              PositionsRow(BODIES[k], get_horizons_data(f[k]))]
    /\ outcome = ""
    /\ IdleCluster
    /\ IdleMars
    /\ eclipse = NotPrinted

NextCluster == test_planetary_clustering

SpecCluster == InitCluster /\ [][NextCluster]_vars

\* check_mars_retrograde for any period up to MaxDays
InitMars ==
    /\ pc = "mars"
    /\ answers = << >>
    /\ results = << >>
    /\ outcome = ""
    /\ IdleCluster
    /\ queried = << >>
    /\ days \in 0..MaxDays
    /\ prev_lon = << >>
    /\ positions = << >>
    /\ diffs = << >>
    /\ eclipse = NotPrinted

NextMars == check_mars_retrograde \/ mars_return

SpecMars == InitMars /\ [][NextMars]_vars

\* test_eclipse_conditions for any two answers of the service
InitEclipse ==
    /\ pc = "eclipse"
    /\ answers = << >>
    /\ results = << >>
    /\ outcome = ""
    /\ IdleCluster
    /\ IdleMars
    /\ eclipse = NotPrinted

NextEclipse == test_eclipse_conditions

SpecEclipse == InitEclipse /\ [][NextEclipse]_vars

-----------------------------------------------------------------------------
(* Reference notions the properties are stated against *)

\* 360 minus the largest circular gap between consecutive distinct angles
\* (hundredths of a degree); 0 for a single distinct angle
MinimalCoveringArc(S) ==
    LET gap(a) == IF S = {a} THEN 36000
                  ELSE Min({(b - a + 36000) % 36000 : b \in S \ {a}})
    IN  36000 - Max({gap(a) : a \in S})

\* the shortest signed rotation from a to b, in (-180, 180]
signedDelta(a, b) ==
    LET d == (b - a + Deg(360)) % Deg(360)
    IN  IF d > Deg(180) THEN d - Deg(360) ELSE d

\* the shortest arc between a and b on the circle
ShortestArc(a, b) ==
    Min({(b - a + Deg(360)) % Deg(360), (a - b + Deg(360)) % Deg(360)})

\* a query that produced no usable table
QueryFailed(answer) ==
    \/ answer.kind = "raise"
    \/ answer.len = 0
    \/ (answer.bad \cap answer.cols) # {}

HasLongitude(answer) == ~QueryFailed(answer) /\ "EclLon" \in answer.cols

\* the longitudes the service supplied, in the order of the queries
Obtained(as) ==
    LET F[k \in 0..Len(as)] ==
            IF k = 0 THEN << >>
            ELSE IF HasLongitude(as[k])
                 THEN Append(F[k - 1], as[k].EclLon)
                 ELSE F[k - 1]
    IN  F[Len(as)]

ClusterLonSet == {longitudes[k][2] : k \in 1..Len(longitudes)}

ClusterBodies == {longitudes[k][1] : k \in 1..Len(longitudes)}

InCircle == \A l \in ClusterLonSet : 0 <= l /\ l < 36000

-----------------------------------------------------------------------------
(* Properties *)

\* C1: for at least two longitudes in [0,360) the span that
\* test_planetary_clustering computes is the length of their minimal
\* covering arc.
C1_SpanIsMinimalArc ==
    (pc = "done" /\ Len(longitudes) >= 2 /\ InCircle)
        => (outcome = "value" /\ span = MinimalCoveringArc(ClusterLonSet))

C3_MissingLatitudeUnknown ==
    (eclipse.state = "printed"
       /\ \E k \in 1..2 : "EclLat" \notin answers[k].cols)
        => (eclipse.near_ecliptic = "" /\ eclipse.possible # "YES")

\* C4: the k-th iteration of check_mars_retrograde queries the instant
\* start_date + 3k days (k = 0, 1, ...), so the instants strictly increase.
C4_InstantsIncrease ==
    \A k \in 1..Len(queried) : queried[k] = 3 * (k - 1)

\* C5: check_mars_retrograde returns one entry per longitude obtained, in
\* order; the first has direction N/A and every later one Direct, RETROGRADE
\* or Stationary as the shortest signed rotation from the previous longitude
\* is positive, negative or zero.
C5_DirectionsFollowSignedDelta ==
    LET lons == Obtained(answers)
    IN  /\ Len(positions) = Len(lons)
        /\ \A k \in 1..Len(positions) :
              /\ positions[k].longitude = lons[k]
              /\ (k = 1) => positions[k].direction = "N/A"
              /\ (k > 1) =>
                    LET d == signedDelta(lons[k - 1], lons[k])
                    IN  positions[k].direction =
                          (IF d > 0 THEN "Direct"
                           ELSE IF d < 0 THEN "RETROGRADE" ELSE "Stationary")

\* C6: test_planetary_positions holds one row per body queried, in BODIES
\* order, all seven when it returns; a failed query gives the Error row, a
\* successful one does not, and the same answer gives the same row whatever
\* failed before it.
C6_OneRowPerBody ==
    /\ Len(results) = Len(answers)
    /\ Len(results) <= Len(BODIES)
    /\ (pc # "positions") => Len(results) = Len(BODIES)
    /\ \A k \in 1..Len(results) :
          /\ results[k].Body = BODIES[k]
          /\ QueryFailed(answers[k]) =>
                /\ results[k].RA.txt = "Error"
                /\ results[k].Dec.txt = "Error"
                /\ results[k].EclLon.txt = "Error"
                /\ results[k].Zodiac.txt = "Error"
          /\ ~QueryFailed(answers[k]) =>
                /\ results[k].RA.txt \in {"num", "N/A"}
                /\ results[k].Dec.txt \in {"num", "N/A"}
                /\ results[k].EclLon.txt \in {"num", "N/A"}
                /\ results[k].Zodiac.txt \in {"zodiac", "N/A"}
    /\ \A j, k \in 1..Len(results) :
          (answers[j] = answers[k])
              => [results[j] EXCEPT !.Body = ""]
                   = [results[k] EXCEPT !.Body = ""]

\* all seven rows are there although an early query raised, another returned
\* an empty table and later ones succeeded
C6_Witness ==
    /\ pc = "cluster"
    /\ Len(results) = Len(BODIES)
    /\ answers[1] = Raises
    /\ answers[2] = EmptyTable
    /\ "EclLon" \in answers[3].bad
    /\ results[4].EclLon.txt = "num"
    /\ results[Len(BODIES)].EclLon.txt = "num"

\* C7: the Sun-Moon separation of test_eclipse_conditions lies in [0,180],
\* is the shortest arc between the two longitudes, is the same with the two
\* swapped, and the conjunction flag is set exactly when it is below 15.
C7_SeparationIsShortestArc ==
    (eclipse.state = "printed") =>
        LET a == answers[1].EclLon
            b == answers[2].EclLon
        IN  /\ 0 <= eclipse.lon_diff /\ eclipse.lon_diff <= Deg(180)
            /\ eclipse.lon_diff = ShortestArc(a, b)
            /\ eclipse.lon_diff = SunMoonSeparation(b, a)
            /\ (eclipse.is_new_moon = "YES") <=> (eclipse.lon_diff < Deg(15))

\* longitudes 10 and 358 give the separation 12 and a conjunction
C7_Witness ==
    /\ eclipse.state = "printed"
    /\ answers[1].EclLon = Deg(10)
    /\ answers[2].EclLon = Deg(358)
    /\ eclipse.lon_diff = Deg(12)
    /\ eclipse.is_new_moon = "YES"

\* C8: the wraparound-corrected difference of check_mars_retrograde is
\* congruent to cur - prev modulo 360, lies in (-180, 180], and is negated
\* by swapping the arguments except at the 180 boundary.
C8_DiffInHalfOpenRange ==
    \A k \in 1..Len(diffs) :
        LET e == diffs[k]
        IN  /\ (e.diff - (e.cur - e.prev) + 2 * Deg(360)) % Deg(360) = 0
            /\ -Deg(180) < e.diff /\ e.diff <= Deg(180)
            /\ (e.diff # Deg(180)) => WrapDiff(e.cur, e.prev) = -e.diff

\* C9: when the usable longitudes are non-empty and all equal (a single one
\* included), test_planetary_clustering completes and returns the span 0.
C9_EqualLongitudesSpanZero ==
    (pc = "done" /\ Len(longitudes) >= 1 /\ Cardinality(ClusterLonSet) = 1)
        => (outcome = "value" /\ span = 0)

\* C10: a body whose query succeeds with an ecliptic longitude L in [0,360)
\* is reported with that longitude and its zodiac sign, and is among the
\* longitudes the clustering analysis uses, for every L including 0.
C10_SuccessIsReportedAndAnalysed ==
    \A k \in 1..Len(results) :
        (HasLongitude(answers[k])
           /\ 0 <= answers[k].EclLon /\ answers[k].EclLon < Deg(360))
            => /\ results[k].EclLon = Fmt2(answers[k].EclLon)
               /\ results[k].Zodiac.txt = "zodiac"
               /\ (pc = "done" /\ outcome # "approximate")
                     => BODIES[k] \in ClusterBodies

====
